---- MODULE Spec2Model ----
(***************************************************************************)
(* Build-time query verification pipeline of sqlx-macros: one invocation   *)
(* of query!() (expand_query) or query_as!() (expand_query_as), the        *)
(* describe round trip it awaits, the argument and output checks that      *)
(* follow, the compilation of the emitted struct literal and the decoding  *)
(* of one fetched row by the emitted mapping.                              *)
(***************************************************************************)
EXTENDS Integers, Sequences, FiniteSets, TLC

(* ------------------------------ bounds --------------------------------- *)
MaxArgs == 2
MaxCols == 2
MaxFields == 2

(* ----------------------------- universes ------------------------------- *)
Variants == {"query", "query_as"}
\* host types of the argument expressions handed to the macro
ArgHostTypes == {"i32", "String", "str"}
\* parameter type ids the server may report
ParamTypeIds == {"INT4", "INT8", "TEXT"}
\* column type ids the server may report; JSONB has no registered host type
ColumnTypeIds == {"INT4", "JSONB"}
ColumnNames == {"id", "name"}
FieldNames == {"id", "name", "email"}
Nullabilities == {"DefinitelyNotNull", "DefinitelyNull", "Unknown"}

SeqsUpTo(S, n) == UNION {[1..k -> S] : k \in 0..n}
Range(s) == {s[i] : i \in 1..Len(s)}

(* --------------------------- type registry ----------------------------- *)
\* a registry that accepts a 32-bit integer for a 64-bit parameter
PostgresTypes_Widened ==
    [BOOL |-> "bool", TEXT |-> "String", INT2 |-> "i16", INT4 |-> "i32",
     INT8 |-> "i32", FLOAT4 |-> "f32", FLOAT8 |-> "f64"]

\* a registry that lists the borrowed slice instead of String for text
PostgresTypes_TextAsStr ==
    [BOOL |-> "bool", TEXT |-> "str", INT2 |-> "i16", INT4 |-> "i32",
     INT8 |-> "i64", FLOAT4 |-> "f32", FLOAT8 |-> "f64"]

\* impl_database_ext! { tokio_sqlx::Postgres { bool, String, i16, i32, i64, f32, f64 } }
PostgresTypes ==
    [BOOL |-> "bool", TEXT |-> "String", INT2 |-> "i16", INT4 |-> "i32",
     INT8 |-> "i64", FLOAT4 |-> "f32", FLOAT8 |-> "f64"]

PARAM_CHECKING == "Strong"

\* host types registered for a type id (empty when the id is unmapped)
compatible_host_types(type_id) ==
    IF type_id \in DOMAIN PostgresTypes THEN {PostgresTypes[type_id]} ELSE {}

\* the type an argument expression is checked as: a borrowed string slice
\* is checked as its owned form (query_by_string passes `string[..]`)
ty_cons(host) == IF host = "str" THEN "String" ELSE host

\* the Postgres registry declares Strong checking, the only mode modelled:
\* the type the argument is checked as must be a registered one
is_param_compatible(type_id, host) ==
    ty_cons(host) \in compatible_host_types(type_id)

(* ------------------------------ errors --------------------------------- *)
Err(kind, position, name, type_id, declared) ==
    [kind |-> kind, position |-> position, name |-> name,
     type_id |-> type_id, declared |-> declared]
NoError == Err("none", -1, "", "", "")

ArgErrors == {"ArityMismatch", "ArgTypeMismatch"}
OutputErrors == {"NoColumns", "UnresolvedColumnType", "FieldMismatch",
                 "DuplicateColumnName"}

(* ------------------------- describe responses -------------------------- *)
NoResponse == [state |-> "none", param_types |-> <<>>, result_columns |-> <<>>]
DescribeFailure == [state |-> "err", param_types |-> <<>>, result_columns |-> <<>>]
\* the nullability of a column whose type is unmapped is never read, so such
\* a column is enumerated with one nullability only
ColumnDescriptors ==
    {c \in [name : ColumnNames, type_id : ColumnTypeIds, nullability : Nullabilities] :
        c.type_id \notin DOMAIN PostgresTypes => c.nullability = "Unknown"}
DescribeResults ==
    [state : {"ok"},
     param_types : SeqsUpTo(ParamTypeIds, MaxArgs),
     result_columns : SeqsUpTo(ColumnDescriptors, MaxCols)]
Responses == {DescribeFailure} \cup DescribeResults

(* ------------------------- pipeline components ------------------------- *)
\* describe_validate: await the describe response, then validate the arity
describe_validate(a, resp) ==
    IF resp.state = "err"
    THEN [ok |-> FALSE, error |-> Err("DescribeError", -1, "", "", "")]
    ELSE IF Len(a) # Len(resp.param_types)
    THEN [ok |-> FALSE, error |-> Err("ArityMismatch", -1, "", "", "")]
    ELSE [ok |-> TRUE, error |-> NoError]

\* positions (1-based) whose argument is not compatible with its parameter
BadArgs(a, param_types) ==
    {i \in 1..Len(a) : ~is_param_compatible(param_types[i], a[i])}

Min(S) == CHOOSE x \in S : \A y \in S : x <= y

\* quote_args: zip arguments with parameter types positionally
quote_args(a, param_types) ==
    LET bad == BadArgs(a, param_types) IN
    IF bad # {}
    THEN [ok |-> FALSE,
          error |-> Err("ArgTypeMismatch", Min(bad) - 1, "",
                        param_types[Min(bad)], a[Min(bad)]),
          plan |-> <<>>]
    ELSE [ok |-> TRUE, error |-> NoError,
          plan |-> [i \in 1..Len(a) |-> [index |-> i - 1, expr |-> a[i]]]]

\* the optional wrapper is decided by the nullability alone
IsWrapped(nullability) == nullability # "DefinitelyNotNull"

RustColumn(column) ==
    [ident |-> column.name,
     type_ |-> [base |-> PostgresTypes[column.type_id],
                optional |-> IsWrapped(column.nullability)]]

DuplicateNames(cols) ==
    {cols[i].name : i \in {k \in 1..Len(cols) :
                              \E j \in 1..Len(cols) : j # k /\ cols[j].name = cols[k].name}}
Unresolved(cols) ==
    {i \in 1..Len(cols) : compatible_host_types(cols[i].type_id) = {}}

\* columns_to_rust: one RustColumn per column descriptor, in column order
\* (every name of ColumnNames is a valid field identifier)
columns_to_rust(cols) ==
    IF DuplicateNames(cols) # {}
    THEN [ok |-> FALSE,
          error |-> Err("DuplicateColumnName", -1,
                        CHOOSE n \in DuplicateNames(cols) : TRUE, "", ""),
          columns |-> <<>>]
    ELSE IF Unresolved(cols) # {}
    THEN [ok |-> FALSE,
          error |-> Err("UnresolvedColumnType", -1,
                        cols[Min(Unresolved(cols))].name,
                        cols[Min(Unresolved(cols))].type_id, ""),
          columns |-> <<>>]
    ELSE [ok |-> TRUE, error |-> NoError,
          columns |-> [i \in 1..Len(cols) |-> RustColumn(cols[i])]]

\* record fields that lose the Option wrapper of their column
record_fields_Bare(columns) ==
    [i \in 1..Len(columns) |->
        [name |-> columns[i].ident,
         type_ |-> [base |-> columns[i].type_.base, optional |-> FALSE]]]

\* record_fields: `#ident: #type_,` for every RustColumn, in order
record_fields(columns) ==
    [i \in 1..Len(columns) |->
        [name |-> columns[i].ident, type_ |-> columns[i].type_]]

\* quote_query_as: a struct literal of out_ty, field #ident read from index i
quote_query_as(out_ty, columns) ==
    [out_ty |-> out_ty,
     literal |-> [i \in 1..Len(columns) |->
                     [field |-> columns[i].ident, index |-> i - 1]]]

NoPlan == [kind |-> "none", out_ty |-> "", columns |-> <<>>,
           record |-> <<>>, literal |-> <<>>]
\* query_as_mapped(sql, |_| Ok(())): every row maps to unit
UnitPlan == [kind |-> "unit", out_ty |-> "()", columns |-> <<>>,
             record |-> <<>>, literal |-> <<>>]

(* ------------------- the emitted code, compiled and run ----------------- *)
\* declarations of the struct named by a query_as!() invocation
TargetStructs ==
    {s \in SeqsUpTo([name : FieldNames, optional : BOOLEAN], MaxFields) :
        \A i, j \in 1..Len(s) : s[i].name = s[j].name => i = j}

NamesOf(s) == {s[i].name : i \in 1..Len(s)}
LiteralFields(literal) == {literal[i].field : i \in 1..Len(literal)}

\* a check that wants the fields given in the order of their declaration
struct_literal_Ordered(declared, literal) ==
    LET missing == NamesOf(declared) \ LiteralFields(literal)
        extra == LiteralFields(literal) \ NamesOf(declared)
        same == /\ Len(declared) = Len(literal)
                /\ \A i \in 1..Len(declared) : declared[i].name = literal[i].field IN
    [state |-> IF same THEN "ok" ELSE "failed",
     missing |-> missing, extra |-> extra]

\* the struct literal against the declaration of the struct: every declared
\* field must be given and every given field must be declared, in any order
struct_literal(declared, literal) ==
    LET missing == NamesOf(declared) \ LiteralFields(literal)
        extra == LiteralFields(literal) \ NamesOf(declared) IN
    [state |-> IF missing = {} /\ extra = {} THEN "ok" ELSE "failed",
     missing |-> missing, extra |-> extra]

\* rows the server may return for the described columns
Rows(cols) ==
    {r \in [1..Len(cols) -> {"null", "value"}] :
        \A i \in 1..Len(cols) :
            /\ cols[i].nullability = "DefinitelyNotNull" => r[i] = "value"
            /\ cols[i].nullability = "DefinitelyNull" => r[i] = "null"}

FieldOf(declared, name) == CHOOSE f \in Range(declared) : f.name = name

\* a decoder that lets a null through whatever the field's type
decode_row_NullTolerant(declared, literal, r) == "value"

\* decoding one row through the struct literal: a null read into a field
\* whose declared type is not an Option is DecodeError::UnexpectedNull
decode_row(declared, literal, r) ==
    IF \E i \in 1..Len(literal) :
          /\ r[literal[i].index + 1] = "null"
          /\ ~FieldOf(declared, literal[i].field).optional
    THEN "UnexpectedNull"
    ELSE "value"

(* -------------------------------- state -------------------------------- *)
VARIABLES
    variant,        \* which macro was invoked
    args,           \* host types of the argument expressions, in order
    pc,             \* position of the invocation
    stages,         \* the positions reached so far, oldest first
    describeCount,  \* describe requests issued on the connection
    response,       \* the describe response, once it has arrived
    error,          \* the error of a failed expansion
    bindingPlan,    \* emitted by quote_args
    outputPlan,     \* emitted by the output resolution
    target,         \* declared fields of the output struct, once compiled
    build,          \* compilation of the emitted code
    row,            \* the row fetched at run time
    decoded         \* outcome of decoding that row

vars == <<variant, args, pc, stages, describeCount, response, error,
          bindingPlan, outputPlan, target, build, row, decoded>>

NoBuild == [state |-> "none", missing |-> {}, extra |-> {}]

Init ==
    /\ variant \in Variants
    /\ args \in SeqsUpTo(ArgHostTypes, MaxArgs)
    /\ pc = "Parsed"
    /\ stages = <<"Parsed">>
    /\ describeCount = 0
    /\ response = NoResponse
    /\ error = NoError
    /\ bindingPlan = <<>>
    /\ outputPlan = NoPlan
    /\ target = <<>>
    /\ build = NoBuild
    /\ row = <<>>
    /\ decoded = "none"

Goto(p) == /\ pc' = p
           /\ stages' = Append(stages, p)

Fail(e) == /\ Goto("Failed")
           /\ error' = e

(* ------------------------------- actions ------------------------------- *)
\* describe_validate up to its await: the describe request is sent
IssueDescribe ==
    /\ pc = "Parsed"
    /\ pc' = "Awaiting"
    /\ describeCount' = describeCount + 1
    /\ UNCHANGED <<variant, args, stages, response, error, bindingPlan,
                   outputPlan, target, build, row, decoded>>

\* the connection answers the describe request
DescribeResponds ==
    /\ pc = "Awaiting"
    /\ response = NoResponse
    /\ \E r \in Responses : response' = r
    /\ UNCHANGED <<variant, args, pc, stages, describeCount, error,
                   bindingPlan, outputPlan, target, build, row, decoded>>

\* the arity error of describe_validate swallowed by the caller
DescribeValidate_ArityIgnored ==
    /\ pc = "Awaiting"
    /\ response # NoResponse
    /\ LET r == describe_validate(args, response) IN
       IF r.ok \/ r.error.kind = "ArityMismatch"
       THEN Goto("Described") /\ UNCHANGED error
       ELSE Fail(r.error)
    /\ UNCHANGED <<variant, args, describeCount, response, bindingPlan,
                   outputPlan, target, build, row, decoded>>

\* a failed describe answered by starting over
DescribeValidate_Retry ==
    /\ pc = "Awaiting"
    /\ response # NoResponse
    /\ LET r == describe_validate(args, response) IN
       IF r.ok THEN Goto("Described") /\ UNCHANGED <<error, response>>
       ELSE IF r.error.kind = "DescribeError"
       THEN pc' = "Parsed" /\ response' = NoResponse /\ UNCHANGED <<error, stages>>
       ELSE Fail(r.error) /\ UNCHANGED response
    /\ UNCHANGED <<variant, args, describeCount, bindingPlan,
                   outputPlan, target, build, row, decoded>>

\* describe_validate after its await, and the `?` of its caller
DescribeValidate ==
    /\ pc = "Awaiting"
    /\ response # NoResponse
    /\ LET r == describe_validate(args, response) IN
       IF r.ok THEN Goto("Described") /\ UNCHANGED error
       ELSE Fail(r.error)
    /\ UNCHANGED <<variant, args, describeCount, response, bindingPlan,
                   outputPlan, target, build, row, decoded>>

\* the error of quote_args dropped: the arguments go through unchecked
expand_query_args_Unchecked ==
    /\ variant = "query"
    /\ pc = "Described"
    /\ Goto("ArgsChecked")
    /\ bindingPlan' = [i \in 1..Len(args) |-> [index |-> i - 1, expr |-> args[i]]]
    /\ UNCHANGED <<variant, args, describeCount, response, error, outputPlan,
                   target, build, row, decoded>>

\* expand_query: quote_args
expand_query_args ==
    /\ variant = "query"
    /\ pc = "Described"
    /\ LET r == quote_args(args, response.param_types) IN
       IF r.ok
       THEN Goto("ArgsChecked") /\ bindingPlan' = r.plan /\ UNCHANGED error
       ELSE Fail(r.error) /\ UNCHANGED bindingPlan
    /\ UNCHANGED <<variant, args, describeCount, response, outputPlan,
                   target, build, row, decoded>>

\* expand_query_as without its emptiness check
expand_query_as_args_NoEmptyCheck ==
    /\ variant = "query_as"
    /\ pc = "Described"
    /\ LET r == quote_args(args, response.param_types) IN
       IF r.ok
       THEN Goto("ArgsChecked") /\ bindingPlan' = r.plan /\ UNCHANGED error
       ELSE Fail(r.error) /\ UNCHANGED bindingPlan
    /\ UNCHANGED <<variant, args, describeCount, response, outputPlan,
                   target, build, row, decoded>>

\* expand_query_as: the emptiness check, then quote_args
expand_query_as_args ==
    /\ variant = "query_as"
    /\ pc = "Described"
    /\ IF response.result_columns = <<>>
       THEN Fail(Err("NoColumns", -1, "", "", "")) /\ UNCHANGED bindingPlan
       ELSE LET r == quote_args(args, response.param_types) IN
            IF r.ok
            THEN Goto("ArgsChecked") /\ bindingPlan' = r.plan /\ UNCHANGED error
            ELSE Fail(r.error) /\ UNCHANGED bindingPlan
    /\ UNCHANGED <<variant, args, describeCount, response, outputPlan,
                   target, build, row, decoded>>

\* expand_query going on to its Record although a column name repeats
expand_query_output_DupAllowed ==
    /\ variant = "query"
    /\ pc = "ArgsChecked"
    /\ LET cols == response.result_columns IN
       IF cols = <<>>
       THEN Goto("OutputResolved") /\ outputPlan' = UnitPlan /\ UNCHANGED error
       ELSE LET r == IF Unresolved(cols) = {}
                     THEN [ok |-> TRUE, error |-> NoError,
                           columns |-> [i \in 1..Len(cols) |-> RustColumn(cols[i])]]
                     ELSE columns_to_rust(cols) IN
            IF r.ok
            THEN /\ Goto("OutputResolved")
                 /\ outputPlan' =
                      [kind |-> "fresh", out_ty |-> "Record",
                       columns |-> r.columns,
                       record |-> record_fields(r.columns),
                       literal |-> quote_query_as("Record", r.columns).literal]
                 /\ UNCHANGED error
            ELSE Fail(r.error) /\ UNCHANGED outputPlan
    /\ UNCHANGED <<variant, args, describeCount, response, bindingPlan,
                   target, build, row, decoded>>

\* expand_query: unit mapping for no columns, else a fresh Record
expand_query_output ==
    /\ variant = "query"
    /\ pc = "ArgsChecked"
    /\ IF response.result_columns = <<>>
       THEN Goto("OutputResolved") /\ outputPlan' = UnitPlan /\ UNCHANGED error
       ELSE LET r == columns_to_rust(response.result_columns) IN
            IF r.ok
            THEN /\ Goto("OutputResolved")
                 /\ outputPlan' =
                      [kind |-> "fresh", out_ty |-> "Record",
                       columns |-> r.columns,
                       record |-> record_fields(r.columns),
                       literal |-> quote_query_as("Record", r.columns).literal]
                 /\ UNCHANGED error
            ELSE Fail(r.error) /\ UNCHANGED outputPlan
    /\ UNCHANGED <<variant, args, describeCount, response, bindingPlan,
                   target, build, row, decoded>>

\* expand_query_as: columns_to_rust, then the struct literal of the target
expand_query_as_output ==
    /\ variant = "query_as"
    /\ pc = "ArgsChecked"
    /\ LET r == columns_to_rust(response.result_columns) IN
       IF r.ok
       THEN /\ Goto("OutputResolved")
            /\ outputPlan' =
                 [kind |-> "named", out_ty |-> "as_ty",
                  columns |-> r.columns, record |-> <<>>,
                  literal |-> quote_query_as("as_ty", r.columns).literal]
            /\ UNCHANGED error
       ELSE Fail(r.error) /\ UNCHANGED outputPlan
    /\ UNCHANGED <<variant, args, describeCount, response, bindingPlan,
                   target, build, row, decoded>>

\* the final quote!: binding and output tokens composed and returned
Emit ==
    /\ pc = "OutputResolved"
    /\ Goto("Emitted")
    /\ UNCHANGED <<variant, args, describeCount, response, error,
                   bindingPlan, outputPlan, target, build, row, decoded>>

\* the emitted block is compiled where the macro was invoked
CompileEmitted ==
    /\ pc = "Emitted"
    /\ build = NoBuild
    /\ \/ /\ outputPlan.kind = "unit"
          /\ target' = <<>>
          /\ build' = [state |-> "ok", missing |-> {}, extra |-> {}]
       \/ /\ outputPlan.kind = "fresh"
          /\ target' = [i \in 1..Len(outputPlan.record) |->
                          [name |-> outputPlan.record[i].name,
                           optional |-> outputPlan.record[i].type_.optional]]
          /\ build' = struct_literal(target', outputPlan.literal)
       \/ /\ outputPlan.kind = "named"
          /\ \E s \in TargetStructs :
                /\ target' = s
                /\ build' = struct_literal(s, outputPlan.literal)
    /\ UNCHANGED <<variant, args, pc, stages, describeCount, response, error,
                   bindingPlan, outputPlan, row, decoded>>

\* fetch_one: the query is run and the returned row mapped
FetchOne ==
    /\ build.state = "ok"
    /\ decoded = "none"
    /\ \E r \in Rows(response.result_columns) :
          /\ row' = r
          /\ decoded' = IF outputPlan.kind = "unit" THEN "unit"
                        ELSE decode_row(target, outputPlan.literal, r)
    /\ UNCHANGED <<variant, args, pc, stages, describeCount, response, error,
                   bindingPlan, outputPlan, target, build>>

Next ==
    \/ IssueDescribe
    \/ DescribeResponds
    \/ DescribeValidate
    \/ expand_query_args
    \/ expand_query_as_args
    \/ expand_query_output
    \/ expand_query_as_output
    \/ Emit
    \/ CompileEmitted
    \/ FetchOne

Spec == Init /\ [][Next]_vars

\* once the describe future is ready the task runs to its return: every step
\* but the arrival of the response is synchronous code of the invocation
Pipeline ==
    \/ IssueDescribe
    \/ DescribeValidate
    \/ expand_query_args
    \/ expand_query_as_args
    \/ expand_query_output
    \/ expand_query_as_output
    \/ Emit

FairSpec == Spec /\ WF_vars(Pipeline)

(* --------------------------- state predicates -------------------------- *)
DescribeOk == response.state = "ok"
Validated == pc \notin {"Parsed", "Awaiting"}
Terminal == pc \in {"Emitted", "Failed"}
Visited(p) == p \in Range(stages)
Cols == response.result_columns
Params == response.param_types
ColNames == NamesOf(Cols)
ArityOk == Len(args) = Len(Params)
ArgsValid == ArityOk /\ BadArgs(args, Params) = {}
ArgsInvalid == ArityOk /\ BadArgs(args, Params) # {}
ArgCheckRan == DescribeOk /\ (Visited("ArgsChecked") \/ error.kind = "ArgTypeMismatch")
ColumnsResolve == DuplicateNames(Cols) = {} /\ Unresolved(Cols) = {}
NamedCompiled == variant = "query_as" /\ build.state # "none"

(* -------------------------------- C1 ----------------------------------- *)
\* C1: when describe returns a number of parameter types that differs from
\* the number of argument expressions, the invocation (query or query_as)
\* fails with ArityMismatch straight after the describe: no argument type
\* check, no emptiness check and no output resolution is reached, and
\* nothing is emitted.
C1_ArityMismatchFails ==
    (DescribeOk /\ ~ArityOk /\ Validated) =>
        /\ pc = "Failed"
        /\ error.kind = "ArityMismatch"
        /\ stages = <<"Parsed", "Failed">>
        /\ bindingPlan = <<>>
        /\ outputPlan = NoPlan

C1_Witness ==
    /\ variant = "query_as"
    /\ DescribeOk /\ ~ArityOk /\ Cols = <<>>
    /\ pc = "Failed"
    /\ error.kind = "ArityMismatch"

(* -------------------------------- C2 ----------------------------------- *)
\* C2: with zero result columns and valid arguments, query!() never fails,
\* its output plan is the unit mapping with no Record and its rows decode to
\* unit; query_as!() fails with NoColumns and emits neither a binding plan
\* nor an output plan.
C2_NoColumns ==
    (DescribeOk /\ Validated /\ ArgsValid /\ Cols = <<>>) =>
        /\ variant = "query" =>
              /\ pc # "Failed"
              /\ pc \in {"OutputResolved", "Emitted"} => outputPlan = UnitPlan
              /\ outputPlan.record = <<>>
              /\ decoded \in {"none", "unit"}
        /\ variant = "query_as" =>
              /\ pc \in {"Described", "Failed"}
              /\ pc = "Failed" => error.kind = "NoColumns"
              /\ bindingPlan = <<>>
              /\ outputPlan = NoPlan
              /\ build = NoBuild

C2_Witness ==
    /\ variant = "query_as"
    /\ DescribeOk /\ ArgsValid /\ Cols = <<>>
    /\ Len(args) > 0
    /\ pc = "Failed"
    /\ error.kind = "NoColumns"

(* -------------------------------- C3 ----------------------------------- *)
\* C3 as stated: a query_as!() expansion succeeds only if the declared field
\* names and the described column names are the same set, and fails with
\* FieldMismatch when they differ.
C3_Original ==
    NamedCompiled =>
        /\ pc = "Emitted" => NamesOf(target) = ColNames
        /\ NamesOf(target) # ColNames => pc = "Failed" /\ error.kind = "FieldMismatch"

\* C3 amended: the expansion does not compare the names and reaches Emitted;
\* the emitted struct literal compiles exactly when the declared field names
\* and the column names are the same set, whatever the order of either, and
\* otherwise its compilation fails naming the declared fields that are no
\* column (missing) and the columns that are no declared field (extra).
C3_FieldsMatchAtCompile ==
    NamedCompiled =>
        /\ pc = "Emitted"
        /\ error = NoError
        /\ build.state = "ok" <=> NamesOf(target) = ColNames
        /\ build.missing = NamesOf(target) \ ColNames
        /\ build.extra = ColNames \ NamesOf(target)

C3_Witness ==
    /\ NamedCompiled
    /\ Len(Cols) = 2 /\ Cols[1].name = "id" /\ Cols[2].name = "name"
    /\ Len(target) = 2 /\ target[1].name = "id" /\ target[2].name = "email"
    /\ build.state = "failed"
    /\ build.missing = {"email"}
    /\ build.extra = {"name"}

C5_Original ==
    ArgCheckRan =>
        (Visited("ArgsChecked") <=>
            \A i \in 1..Len(args) : args[i] \in compatible_host_types(Params[i]))

\* C5 amended: under ParamChecking::Strong the arguments are accepted iff
\* each argument's host type, a string slice taken as String, is one of the
\* host types registered for its parameter's type id; the first argument
\* that is not is reported by position; an i32 for an INT4 parameter gives
\* one binding entry and an i32 for an INT8 parameter is ArgTypeMismatch at
\* position 0: no integer is widened.
C5_StrongExactAfterTyCons ==
    ArgCheckRan =>
        /\ PARAM_CHECKING = "Strong"
        /\ Visited("ArgsChecked") <=>
              \A i \in 1..Len(args) : ty_cons(args[i]) \in compatible_host_types(Params[i])
        /\ error.kind = "ArgTypeMismatch" =>
              /\ error.position + 1 \in 1..Len(args)
              /\ ty_cons(args[error.position + 1])
                    \notin compatible_host_types(Params[error.position + 1])
              /\ \A i \in 1..error.position :
                    ty_cons(args[i]) \in compatible_host_types(Params[i])
              /\ error.type_id = Params[error.position + 1]
              /\ error.declared = args[error.position + 1]
        /\ (args = <<"i32">> /\ Params = <<"INT4">>) =>
              /\ Visited("ArgsChecked")
              /\ bindingPlan = <<[index |-> 0, expr |-> "i32"]>>
        /\ (args = <<"i32">> /\ Params = <<"INT8">>) =>
              error = Err("ArgTypeMismatch", 0, "", "INT8", "i32")

C5_Witness ==
    /\ args = <<"i32">> /\ Params = <<"INT8">>
    /\ pc = "Failed"
    /\ error.kind = "ArgTypeMismatch"
    /\ error.position = 0

C7_UnexpectedNullAtDecode ==
    \A i \in 1..Len(Cols) :
        (/\ variant = "query_as"
         /\ build.state = "ok"
         /\ Cols[i].nullability = "Unknown"
         /\ ~FieldOf(target, Cols[i].name).optional) =>
            /\ pc = "Emitted"
            /\ error = NoError
            /\ ~Visited("Failed")
            /\ (decoded # "none" /\ row[i] = "null") => decoded = "UnexpectedNull"

C7_Witness ==
    /\ variant = "query_as"
    /\ Len(Cols) = 2
    /\ Cols[1].name = "id" /\ Cols[2].name = "name"
    /\ Cols[2].nullability = "Unknown"
    /\ target = <<[name |-> "id", optional |-> FALSE],
                  [name |-> "name", optional |-> FALSE]>>
    /\ build.state = "ok"
    /\ row = <<"value", "null">>
    /\ decoded = "UnexpectedNull"

Rank(p) ==
    CASE p = "Parsed" -> 1
      [] p = "Described" -> 2
      [] p = "ArgsChecked" -> 3
      [] p = "OutputResolved" -> 4
      [] p = "Emitted" -> 5
      [] p = "Failed" -> 6

\* the positions are reached in the fixed order, none twice, Failed last
StagesInOrder ==
    /\ \A i \in 1..(Len(stages) - 1) : Rank(stages[i]) < Rank(stages[i + 1])
    /\ pc = "Emitted" =>
          stages = <<"Parsed", "Described", "ArgsChecked", "OutputResolved", "Emitted">>
    /\ pc # "Awaiting" => pc = stages[Len(stages)]

\* C9 as stated: the positions are reached in the fixed order and every
\* output-resolution failure comes after a successful argument check, so
\* that invalid argument types are always reported as ArgTypeMismatch.
C9_Original ==
    /\ StagesInOrder
    /\ error.kind \in OutputErrors => Visited("ArgsChecked")
    /\ (pc = "Failed" /\ DescribeOk /\ ArgsInvalid) => error.kind = "ArgTypeMismatch"

\* C9 amended: the positions are reached in the fixed order, none twice, and
\* the first failure ends the invocation; UnresolvedColumnType and
\* DuplicateColumnName are raised only after a successful argument check,
\* but the NoColumns of query_as!() is raised before the arguments are
\* checked: a query_as!() with zero columns and an argument of the wrong
\* type fails with NoColumns, every other invocation with an argument of
\* the wrong type fails with ArgTypeMismatch.
C9_OrderExceptNoColumns ==
    /\ StagesInOrder
    /\ error.kind \in (OutputErrors \ {"NoColumns"}) => Visited("ArgsChecked")
    /\ error.kind = "NoColumns" =>
          /\ variant = "query_as"
          /\ Cols = <<>>
          /\ stages = <<"Parsed", "Described", "Failed">>
    /\ (pc = "Failed" /\ DescribeOk /\ ArgsInvalid) =>
          error.kind = (IF variant = "query_as" /\ Cols = <<>>
                        THEN "NoColumns" ELSE "ArgTypeMismatch")

C9_Witness ==
    /\ variant = "query_as"
    /\ DescribeOk /\ ArgsInvalid /\ Cols = <<>>
    /\ pc = "Failed"
    /\ error.kind = "NoColumns"

(* -------------------------------- C10 ---------------------------------- *)
DescribedOnce ==
    /\ describeCount <= 1
    /\ pc = "Parsed" => describeCount = 0 /\ stages = <<"Parsed">>
    /\ pc # "Parsed" => describeCount = 1
    /\ Len(stages) > 1 => describeCount = 1 /\ response # NoResponse

\* C10: an invocation issues its one describe request before any check and
\* never a second one, whatever the outcome of the describe or of the
\* checks; once the response has arrived the invocation ends Emitted or
\* Failed.
C10_OneDescribeThenEnds ==
    /\ []DescribedOnce
    /\ (response # NoResponse) ~> Terminal

C10_Witness ==
    /\ pc = "Failed"
    /\ error.kind = "DescribeError"
    /\ describeCount = 1
====
